---- MODULE Spec2Model ----
(***************************************************************************)
(* Model of parser/parser.go of gatling-to-influxdb: the concurrent phase  *)
(* of RunMain (orchestrator), parseStart/fileProcessor (Tailing Reader),   *)
(* stringProcessor (line classifier) and the metrics sink's lifecycle.     *)
(*                                                                         *)
(* The log file is a sequence of symbols.  A symbol stands for the literal *)
(* characters Chars gives it, so the classifier's patterns are matched on  *)
(* the characters of the buffer; the file is appended, and read, in whole  *)
(* symbols.                                                                *)
(***************************************************************************)
EXTENDS Integers, Sequences, FiniteSets, TLC

\* ------------------------------------------------------------ bounds
\* Largest number of lines the load tool writes to simulation.log.
MaxLines == 2
\* Largest value of the stop-timeout flag, in seconds.
MaxWaitTime == 1
\* Largest number of transient (non end-of-file) read errors of an open file.
MaxReadErrs == 1
\* The history of classifier calls keeps this many entries: enough for every
\* run of an open file (one call per line, one more per read error).
MaxHist == MaxLines + MaxReadErrs + 1

VARIABLES
    content,        \* everything the load tool will have written to the log
    pos,            \* offset of the bufio.Reader r in the file
    buf,            \* fileProcessor's line buffer buf
    fileOk,         \* whether os.Open succeeded in parseStart (file # nil)
    waitTime,       \* the stop-timeout flag, seconds
    elapsed,        \* time.Now() - startWait, seconds, saturating above waitTime
    readErrs,       \* transient read errors so far
    stopRequested,  \* cmd.Context() is done
    pCancelled,     \* pCancel() was called
    iCancelled,     \* iCancel() was called
    rpc,            \* where RunMain is
    tpc,            \* where parseStart/fileProcessor is
    spc,            \* where influx.StartProcessing is
    wg,             \* the WaitGroup's counter
    notified,       \* sends on parserStopped that fileProcessor began
    recvd,          \* receives from parserStopped that RunMain completed
    exitReason,     \* why fileProcessor left ParseLoop
    classified,     \* history: the calls of stringProcessor, in order
    exitCode,       \* how RunMain ended: "none", "return", "exit1" or "panic"
    goos,           \* runtime.GOOS
    rootState,      \* what os.Stat / os.Lstat of the target root gives now
    absentPolls,    \* history: lookupTargetDir's polls that found no root
    done,           \* history: the Resolver stages that have succeeded
    seenTree,       \* history: the tree of the walk that set logDir or died
    visited,        \* history: the calls of walkFunc in that walk
    logDir,         \* logDir, as the index of the entry in seenTree (0: unset)
    seenLog,        \* history: what waitForLog's last os.Stat gave
    prevStamp,      \* history: the call of timeFromUnixBytes before the last
    curStamp        \* history: the last call of timeFromUnixBytes

\* The variables of the Resolver and of the timestamp conversion.
otherVars == <<goos, rootState, absentPolls, done, seenTree, visited, logDir, seenLog,
               prevStamp, curStamp>>

vars == <<content, pos, buf, fileOk, waitTime, elapsed, readErrs,
          stopRequested, pCancelled, iCancelled, rpc, tpc, spc, wg,
          notified, recvd, exitReason, classified, exitCode, otherVars>>

\* ------------------------------------------------------------ characters
\* The characters a symbol of the file stands for.
Chars(sym) ==
    CASE sym = "REQUEST" -> <<"R", "E", "Q", "U", "E", "S", "T">>
      [] sym = "GROUP"   -> <<"G", "R", "O", "U", "P">>
      [] sym = "USER"    -> <<"U", "S", "E", "R">>
      [] sym = "ERROR"   -> <<"E", "R", "R", "O", "R">>
      [] sym = "RUN"     -> <<"R", "U", "N">>
      [] OTHER           -> <<sym>>

RECURSIVE Expand(_)
\* buf.Bytes(): the characters of a sequence of symbols.
Expand(s) == IF s = <<>> THEN <<>> ELSE Chars(Head(s)) \o Expand(Tail(s))

\* The class \s of Go's regexp: [\t\n\f\r ].
Whitespace == {"\t", "\n", "\f", "\r", " "}

\* kw followed by a whitespace character, at offset i of text.
MatchAt(text, i, kw) ==
    /\ i + Len(kw) <= Len(text)
    /\ \A j \in 1..Len(kw) : text[i + j - 1] = kw[j]
    /\ text[i + Len(kw)] \in Whitespace

userLine(text) == MatchAt(text, 1, Chars("USER"))
requestLine(text) == MatchAt(text, 1, Chars("REQUEST"))
groupLine(text) == \E i \in 1..Len(text) : MatchAt(text, i, Chars("GROUP"))
runLine(text) == MatchAt(text, 1, Chars("RUN"))
errorLine(text) == MatchAt(text, 1, Chars("ERROR"))

\* The case stringProcessor's switch takes: the first pattern that matches.
LineKind(text) ==
    IF requestLine(text) THEN "request"
    ELSE IF groupLine(text) THEN "group"
    ELSE IF userLine(text) THEN "user"
    ELSE IF errorLine(text) THEN "error"
    ELSE IF runLine(text) THEN "run"
    ELSE "unknown"

\* What the record parser of a kind may return: nil or an error.
ParserResults(kind) == IF kind = "unknown" THEN {"err"} ELSE {"ok", "err"}

\* stringProcessor's result: a Run-header's error is wrapped in errFatal.
stringProcessor(text, res) ==
    IF res = "ok" THEN "ok"
    ELSE IF LineKind(text) = "run" THEN "fatal"
    ELSE "err"

\* Mutant of IsFatal: every classifier error breaks the loop.
IsFatalAnyError(result) == result # "ok"

\* errors.Is(err, errFatal) in fileProcessor.
IsFatal(result) == result = "fatal"

\* ------------------------------------------------------------ the file
Heads == {"REQUEST", "GROUP", "USER", "ERROR", "RUN", "x"}

\* The lines the load tool may write: a head, a tab, and possibly a field
\* that ends in GROUP; each ends in a newline.
Lines ==
    {<<h, "\t", "\n">> : h \in Heads}
        \cup {<<"USER", "\t", "GROUP", "\t", "\n">>,
              <<"RUN", "\t", "GROUP", "\t", "\n">>}

RECURSIVE Concat(_)
Concat(ls) == IF ls = <<>> THEN <<>> ELSE Head(ls) \o Concat(Tail(ls))

Files == {Concat(ls) : ls \in UNION {[1..n -> Lines] : n \in 0..MaxLines}}

\* Index of the first newline of s, 0 when it has none.
NewlineIndex(s) ==
    IF \E i \in 1..Len(s) : s[i] = "\n"
    THEN CHOOSE i \in 1..Len(s) : s[i] = "\n" /\ \A j \in 1..(i - 1) : s[j] # "\n"
    ELSE 0

\* The bytes of the file the reader has not consumed, the file being w long.
Avail(w) == SubSeq(content, pos + 1, w)

\* r.ReadBytes('\n'): the results it may give with avail left in the file.
\* An open file gives the bytes up to and including the next newline, or
\* what is left with io.EOF; a failing read gives what was read before it,
\* without a newline.  A nil file gives os.ErrInvalid on every read.
ReadBytes(avail) ==
    IF ~fileOk THEN {[b |-> <<>>, err |-> "invalid"]}
    ELSE LET i == NewlineIndex(avail)
             good == IF i > 0 THEN [b |-> SubSeq(avail, 1, i), err |-> "nil"]
                     ELSE [b |-> avail, err |-> "EOF"]
             most == IF i > 0 THEN i - 1 ELSE Len(avail)
         IN  {good} \cup
             (IF readErrs < MaxReadErrs
              THEN {[b |-> SubSeq(avail, 1, k), err |-> "io"] : k \in 0..most}
              ELSE {})

\* Mutant of IdleTimedOut: stops at the threshold itself (!Before for After).
IdleTimedOutAtThreshold(el, wt) == el >= wt

\* time.Now().After(startWait.Add(waitTime seconds))
IdleTimedOut(el, wt) == el > wt

\* The largest value elapsed takes: beyond it the comparison cannot change.
ElapsedCap == waitTime + 1

Min(a, b) == IF a < b THEN a ELSE b

\* ------------------------------------------------------------ Init
\* The three stages of the Resolver, in the order RunMain calls them.
Stages == <<"target", "results", "log">>

\* No file has been looked at by waitForLog yet.
NoLog == [kind |-> "none", perm |-> 0, goos |-> "none"]

\* timeFromUnixBytes has not been called yet.
NoStamp == [ub |-> <<>>, ok |-> FALSE, ts |-> 0, ns |-> 0]

\* RunMain at line 334: the Resolver has succeeded, nothing is running yet.
Init ==
    /\ content \in Files
    /\ pos = 0
    /\ buf = <<>>
    /\ fileOk = TRUE
    /\ waitTime \in 0..MaxWaitTime
    /\ elapsed = 0
    /\ readErrs = 0
    /\ stopRequested = FALSE
    /\ pCancelled = FALSE
    /\ iCancelled = FALSE
    /\ rpc = "spawn"
    /\ tpc = "idle"
    /\ spc = "idle"
    /\ wg = 0
    /\ notified = 0
    /\ recvd = 0
    /\ exitReason = "none"
    /\ classified = <<>>
    /\ exitCode = "none"
    /\ goos = "linux"
    /\ rootState = "dir"
    /\ absentPolls = 0
    /\ done = Stages
    /\ seenTree = <<>>
    /\ visited = 0
    /\ logDir = 0
    /\ seenLog = NoLog
    /\ prevStamp = NoStamp
    /\ curStamp = NoStamp

\* ------------------------------------------------------------ environment
\* The operator interrupts the process: cmd.Context() becomes done.  The
\* Resolver's loops and FinisherLoop's select read it; a later interrupt
\* changes nothing.
StopRequest ==
    /\ ~stopRequested
    /\ rpc \in {"target", "results", "log", "spawn", "select"}
    /\ stopRequested' = TRUE
    /\ UNCHANGED <<content, pos, buf, fileOk, waitTime, elapsed,
                   readErrs, pCancelled, iCancelled, rpc, tpc, spc, wg,
                   notified, recvd, exitReason, classified, exitCode>>
    /\ UNCHANGED otherVars

\* ------------------------------------------------------------ Tailing Reader
\* Mutant of LeaveLoop: the fatal path returns instead of breaking to the send.
LeaveLoopReturnOnFatal(reason) ==
    /\ tpc' = IF reason = "fatal" THEN "closing" ELSE "notify"
    /\ notified' = IF reason = "fatal" THEN notified ELSE notified + 1
    /\ exitReason' = reason

\* ParseLoop is left: fileProcessor goes to its send on parserStopped.
LeaveLoop(reason) ==
    /\ tpc' = "notify"
    /\ notified' = notified + 1
    /\ exitReason' = reason

\* The record of one call of stringProcessor, kept in the history: the
\* buffer it was given, the file offset the buffer ends at, the kind the
\* switch chose and the result.
Remember(line, upto, result) ==
    IF Len(classified) < MaxHist
    THEN Append(classified, [line |-> line, upto |-> upto,
                             kind |-> LineKind(Expand(line)),
                             result |-> result])
    ELSE classified

\* parseStart up to the loop: os.Open (its failure is only logged), then
\* fileProcessor's r, buf and startWait.
ParseStartOpen ==
    /\ tpc = "open"
    /\ \E ok \in BOOLEAN : fileOk' = ok
    /\ buf' = <<>>
    /\ elapsed' = 0
    /\ tpc' = "top"
    /\ UNCHANGED <<content, pos, waitTime, readErrs, stopRequested,
                   pCancelled, iCancelled, rpc, spc, wg, notified, recvd,
                   exitReason, classified, exitCode>>
    /\ UNCHANGED otherVars

\* Mutant of TailerTop: the cancellation is looked at only after the read, so
\* a cancelled tailer goes on to read.
TailerTopIgnoresCancel ==
    /\ tpc = "top"
    /\ tpc' = "read"
    /\ UNCHANGED <<content, pos, buf, fileOk, waitTime, elapsed,
                   readErrs, stopRequested, pCancelled, iCancelled, rpc, spc,
                   wg, notified, recvd, exitReason, classified, exitCode>>
    /\ UNCHANGED otherVars

\* The select at the top of ParseLoop: ctx.Done() wins over default.
TailerTop ==
    /\ tpc = "top"
    /\ IF pCancelled
       THEN LeaveLoop("cancel")
       ELSE /\ tpc' = "read"
            /\ UNCHANGED <<notified, exitReason>>
    /\ UNCHANGED <<content, pos, buf, fileOk, waitTime, elapsed,
                   readErrs, stopRequested, pCancelled, iCancelled, rpc, spc,
                   wg, recvd, classified, exitCode>>
    /\ UNCHANGED otherVars

\* Mutant of OnEOF: startWait is reset on every read, end-of-file included.
OnEOFResetsClock(b, now) ==
    IF IdleTimedOut(now, waitTime)
    THEN /\ LeaveLoop("idle")
         /\ elapsed' = now
         /\ UNCHANGED <<buf, classified>>
    ELSE /\ buf' = buf \o b
         /\ elapsed' = 0
         /\ tpc' = "sleep"
         /\ UNCHANGED <<classified, notified, exitReason>>

\* Mutant of OnEOF: the fragment read before the end of file is not kept.
OnEOFDropsFragment(b, now) ==
    IF IdleTimedOut(now, waitTime)
    THEN /\ LeaveLoop("idle")
         /\ elapsed' = now
         /\ UNCHANGED <<buf, classified>>
    ELSE /\ elapsed' = now
         /\ tpc' = "sleep"
         /\ UNCHANGED <<buf, classified, notified, exitReason>>

\* The read reported io.EOF with fragment b, at time now after startWait.
OnEOF(b, now) ==
    IF IdleTimedOut(now, waitTime)
    THEN /\ LeaveLoop("idle")
         /\ elapsed' = now
         /\ UNCHANGED <<buf, classified>>
    ELSE /\ buf' = buf \o b
         /\ elapsed' = now
         /\ tpc' = "sleep"
         /\ UNCHANGED <<classified, notified, exitReason>>

\* The read gave b with no error or with an error other than io.EOF (which
\* is only logged): b is appended and the buffer goes to stringProcessor.
OnLine(b) ==
    LET line == buf \o b
    IN  \E res \in ParserResults(LineKind(Expand(line))) :
            LET result == stringProcessor(Expand(line), res)
            IN  /\ classified' = Remember(line, pos + Len(b), result)
                /\ IF IsFatal(result)
                   THEN /\ LeaveLoop("fatal")
                        /\ buf' = line
                        /\ UNCHANGED elapsed
                   ELSE /\ buf' = <<>>
                        /\ elapsed' = 0
                        /\ tpc' = "top"
                        /\ UNCHANGED <<notified, exitReason>>

\* One pass of ParseLoop's body, from r.ReadBytes to the end of the pass.
\* Its inputs: w, how far the load tool has written the file by the time of
\* the read, and, when the read reports io.EOF, now: the time since startWait
\* at which time.Now() is taken.  The file only grows; a read that is given a
\* shorter file than an earlier read saw has the result it would have in the
\* run where the earlier read saw no more than it returned, so w ranges from
\* the reader's offset on.
TailerRead ==
    /\ tpc = "read"
    /\ \E w \in pos..Len(content) :
        \E r \in ReadBytes(Avail(w)) :
            /\ pos' = pos + Len(r.b)
            /\ readErrs' = IF r.err = "io" THEN readErrs + 1 ELSE readErrs
            /\ IF r.err = "EOF"
               THEN \E now \in elapsed..ElapsedCap : OnEOF(r.b, now)
               ELSE OnLine(r.b)
    /\ UNCHANGED <<content, fileOk, waitTime, stopRequested, pCancelled,
                   iCancelled, rpc, spc, wg, recvd, exitCode>>
    /\ UNCHANGED otherVars

\* time.Sleep(time.Second) after an end-of-file: a second passes (what the
\* sleep takes longer is part of the next pass's now).
TailerSleep ==
    /\ tpc = "sleep"
    /\ elapsed' = Min(elapsed + 1, ElapsedCap)
    /\ tpc' = "top"
    /\ UNCHANGED <<content, pos, buf, fileOk, waitTime, readErrs,
                   stopRequested, pCancelled, iCancelled, rpc, spc, wg,
                   notified, recvd, exitReason, classified, exitCode>>
    /\ UNCHANGED otherVars

\* The send was received: fileProcessor returns, parseStart's deferred
\* file.Close() and wg.Done() run.
ParseStartExit ==
    /\ tpc = "closing"
    /\ tpc' = "done"
    /\ wg' = wg - 1
    /\ UNCHANGED <<content, pos, buf, fileOk, waitTime, elapsed,
                   readErrs, stopRequested, pCancelled, iCancelled, rpc, spc,
                   notified, recvd, exitReason, classified, exitCode>>
    /\ UNCHANGED otherVars

\* ------------------------------------------------------------ the sink
\* influx.StartProcessing returns once its context is cancelled, and calls
\* wg.Done().
SinkExit ==
    /\ spc = "running"
    /\ iCancelled
    /\ spc' = "done"
    /\ wg' = wg - 1
    /\ UNCHANGED <<content, pos, buf, fileOk, waitTime, elapsed,
                   readErrs, stopRequested, pCancelled, iCancelled, rpc, tpc,
                   notified, recvd, exitReason, classified, exitCode>>
    /\ UNCHANGED otherVars

\* ------------------------------------------------------------ RunMain
\* wg.Add(2) and the two go statements.
RunMainSpawn ==
    /\ rpc = "spawn"
    /\ wg' = 2
    /\ tpc' = "open"
    /\ spc' = "running"
    /\ rpc' = "select"
    /\ UNCHANGED <<content, pos, buf, fileOk, waitTime, elapsed,
                   readErrs, stopRequested, pCancelled, iCancelled, notified,
                   recvd, exitReason, classified, exitCode>>
    /\ UNCHANGED otherVars

\* Mutant of RunMainCtxDone: the stop cancels both tokens at once.
RunMainCtxDoneCancelsSink ==
    /\ rpc = "select"
    /\ stopRequested
    /\ pCancelled' = TRUE
    /\ iCancelled' = TRUE
    /\ UNCHANGED <<content, pos, buf, fileOk, waitTime, elapsed,
                   readErrs, stopRequested, rpc, tpc, spc, wg, notified,
                   recvd, exitReason, classified, exitCode>>
    /\ UNCHANGED otherVars

\* FinisherLoop, case <-cmd.Context().Done(): pCancel(), and the loop goes on.
RunMainCtxDone ==
    /\ rpc = "select"
    /\ stopRequested
    /\ pCancelled' = TRUE
    /\ UNCHANGED <<content, pos, buf, fileOk, waitTime, elapsed,
                   readErrs, stopRequested, iCancelled, rpc, tpc, spc, wg,
                   notified, recvd, exitReason, classified, exitCode>>
    /\ UNCHANGED otherVars

\* FinisherLoop, case <-parserStopped: the receive meets fileProcessor's send.
RunMainParserStopped ==
    /\ rpc = "select"
    /\ tpc = "notify"
    /\ recvd' = recvd + 1
    /\ tpc' = "closing"
    /\ rpc' = "icancel"
    /\ UNCHANGED <<content, pos, buf, fileOk, waitTime, elapsed,
                   readErrs, stopRequested, pCancelled, iCancelled, spc, wg,
                   notified, exitReason, classified, exitCode>>
    /\ UNCHANGED otherVars

\* iCancel() after the receive.
RunMainICancel ==
    /\ rpc = "icancel"
    /\ iCancelled' = TRUE
    /\ rpc' = "pcancel"
    /\ UNCHANGED <<content, pos, buf, fileOk, waitTime, elapsed,
                   readErrs, stopRequested, pCancelled, tpc, spc, wg,
                   notified, recvd, exitReason, classified, exitCode>>
    /\ UNCHANGED otherVars

\* pCancel() and break FinisherLoop.
RunMainPCancel ==
    /\ rpc = "pcancel"
    /\ pCancelled' = TRUE
    /\ rpc' = "wait"
    /\ UNCHANGED <<content, pos, buf, fileOk, waitTime, elapsed,
                   readErrs, stopRequested, iCancelled, tpc, spc, wg,
                   notified, recvd, exitReason, classified, exitCode>>
    /\ UNCHANGED otherVars

\* Mutant of RunMainWait: RunMain returns without wg.Wait().
RunMainWaitNoJoin ==
    /\ rpc = "wait"
    /\ rpc' = "returned"
    /\ exitCode' = "return"
    /\ UNCHANGED <<content, pos, buf, fileOk, waitTime, elapsed,
                   readErrs, stopRequested, pCancelled, iCancelled, tpc, spc,
                   wg, notified, recvd, exitReason, classified>>
    /\ UNCHANGED otherVars

\* wg.Wait(), then RunMain returns to its caller.
RunMainWait ==
    /\ rpc = "wait"
    /\ wg = 0
    /\ rpc' = "returned"
    /\ exitCode' = "return"
    /\ UNCHANGED <<content, pos, buf, fileOk, waitTime, elapsed,
                   readErrs, stopRequested, pCancelled, iCancelled, tpc, spc,
                   wg, notified, recvd, exitReason, classified>>
    /\ UNCHANGED otherVars

\* ------------------------------------------------------------ specification
TailerNext ==
    \/ ParseStartOpen
    \/ TailerTop
    \/ TailerRead
    \/ TailerSleep
    \/ ParseStartExit

RunMainNext ==
    \/ RunMainSpawn
    \/ RunMainCtxDone
    \/ RunMainParserStopped
    \/ RunMainICancel
    \/ RunMainPCancel
    \/ RunMainWait

Next ==
    \/ StopRequest
    \/ TailerNext
    \/ RunMainNext
    \/ SinkExit

Spec == Init /\ [][Next]_vars

\* The fairness Go's scheduler gives: each goroutine that can run does, and
\* a select with a ready case takes one.
FairSpec ==
    /\ Spec
    /\ WF_vars(TailerNext)
    /\ WF_vars(RunMainNext)
    /\ WF_vars(SinkExit)

\* ------------------------------------------------------------ claims
\* fileProcessor is past ParseLoop.
TailerLeftLoop == tpc \in {"notify", "closing", "done"}

\* C1: the sink's cancellation (iCancel) is requested only after RunMain has
\* received the tailer's notification on parserStopped, whatever the order of
\* the external stop and the tailer's own completion; by then fileProcessor
\* is past its send, so no line goes to the classifier afterwards.
C1_SinkCancelledAfterNotification ==
    iCancelled => recvd = 1 /\ tpc \in {"closing", "done"}

\* C1 witness: the sink is cancelled in a run where the stop was requested
\* and the tailer completed on its own idle timeout.
C1_Witness ==
    iCancelled /\ stopRequested /\ exitReason = "idle" /\ Len(classified) > 0

\* C2: RunMain returns only after parseStart and influx.StartProcessing have
\* both exited.
C2_ReturnAfterBothExited ==
    rpc = "returned" => tpc = "done" /\ spc = "done" /\ wg = 0

\* C2 witness: RunMain has returned after an external stop.
C2_Witness == rpc = "returned" /\ stopRequested /\ exitReason = "cancel"

\* C3: on every exit of ParseLoop fileProcessor sends exactly one
\* notification on parserStopped, and RunMain receives it exactly once.
C3_ExactlyOneNotification ==
    /\ notified <= 1
    /\ recvd <= notified
    /\ (exitReason # "none") = TailerLeftLoop
    /\ TailerLeftLoop => notified = 1
    /\ tpc \in {"closing", "done"} => recvd = 1
    /\ rpc \in {"icancel", "pcancel", "wait", "returned"} => recvd = 1

\* C3 witness: the loop was left on a fatal classifier error and the
\* notification was consumed.
C3_Witness == tpc = "done" /\ exitReason = "fatal" /\ recvd = 1

\* A pass of ParseLoop in which the read reported io.EOF: it ends in the
\* sleep or in the idle exit; elapsed' is the time the pass ran at.
EOFStep ==
    /\ tpc = "read"
    /\ tpc' = "sleep" \/ (tpc' = "notify" /\ exitReason' = "idle")

\* C4 as stated: at end-of-file tailing continues when the time since the
\* IdleClock's reset is strictly less than the timeout, and stops when it is
\* equal to or greater than the timeout.
C4_Original ==
    [][EOFStep => /\ elapsed' < waitTime => tpc' = "sleep"
                  /\ elapsed' >= waitTime => tpc' = "notify"]_vars

\* C4 amended: at end-of-file tailing continues when the time since the
\* IdleClock's reset is less than or equal to the timeout, and stops when it
\* is strictly greater than the timeout.
C4_IdleBoundary ==
    [][EOFStep => /\ elapsed' <= waitTime => tpc' = "sleep"
                  /\ elapsed' > waitTime => tpc' = "notify" /\ notified' = 1]_vars

\* C4 witness: an end-of-file exactly at the timeout, after which the tailer
\* sleeps and goes on.
C4_Witness == tpc = "sleep" /\ elapsed = waitTime /\ waitTime > 0
\* The state Stopped: notification received, sink cancelled, both units
\* joined and RunMain back at its caller.
Stopped ==
    /\ rpc = "returned"
    /\ recvd = 1
    /\ iCancelled
    /\ tpc = "done"
    /\ spc = "done"

\* C5: once an external stop is seen by FinisherLoop, RunMain cancels the
\* tailer's token; the tailer leaves ParseLoop at its next loop-top check,
\* whatever the idle clock says; and the pipeline reaches Stopped.
C5_StopLeadsToStopped ==
    /\ [][tpc = "top" /\ pCancelled /\ tpc' # tpc
            => tpc' = "notify" /\ exitReason' = "cancel"
               /\ elapsed' = elapsed]_vars
    /\ (stopRequested /\ rpc = "select") ~> (pCancelled \/ recvd = 1)
    /\ (stopRequested /\ rpc = "select") ~> Stopped

\* C5 witness: Stopped, reached by a tailer that left its loop on the
\* cancellation before its idle timeout had elapsed.
C5_Witness ==
    Stopped /\ stopRequested /\ exitReason = "cancel" /\ elapsed <= waitTime

\* C6: with the file opened and finitely many read errors, if no external
\* stop is requested the tailer eventually stops (on its idle timeout, or
\* earlier on a fatal Run-header), the sink is cancelled and RunMain returns
\* normally.
C6_NaturalCompletion ==
    <>(\/ stopRequested
       \/ ~fileOk
       \/ /\ Stopped
          /\ exitReason \in {"idle", "fatal"}
          /\ exitCode = "return")

\* C6 witness: RunMain has returned after the idle timeout alone ended the
\* tailing of a file whose lines were all read.
C6_Witness ==
    /\ Stopped
    /\ ~stopRequested
    /\ exitReason = "idle"
    /\ exitCode = "return"
    /\ content # <<>>
    /\ pos = Len(content)

\* The kinds whose parse failure is a skippable record.
DataKinds == {"user", "request", "group", "error"}

\* C7: an error on a User, Request, Group or Error line does not stop the
\* tailer: the buffer is cleared, and the next buffer classified starts at
\* the byte after the failed one; the loop is never left because of it.
C7_DataErrorSkipped ==
    \A i \in 1..Len(classified) :
        (classified[i].kind \in DataKinds /\ classified[i].result # "ok") =>
            /\ classified[i].result = "err"
            /\ i < Len(classified) =>
                classified[i + 1].line =
                    SubSeq(content, classified[i].upto + 1, classified[i + 1].upto)
            /\ (i = Len(classified) /\ Len(classified) < MaxHist) =>
                /\ exitReason # "fatal"
                /\ ~TailerLeftLoop =>
                    buf = SubSeq(content, classified[i].upto + 1, pos)

\* C7 witness: a complete line was classified after a data line failed.
C7_Witness ==
    \E i \in 1..(Len(classified) - 1) :
        /\ classified[i].kind \in DataKinds
        /\ classified[i].result = "err"
        /\ classified[i + 1].line \in Lines
        /\ readErrs = 0

\* C8 as stated: whenever a line that begins with RUN and whitespace fails
\* to parse, the tailer stops, nothing after it is classified and the
\* notification is sent.
C8_RunFailureFatal ==
    \A i \in 1..Len(classified) :
        (runLine(Expand(classified[i].line)) /\ classified[i].result # "ok") =>
            /\ i = Len(classified)
            /\ exitReason = "fatal"
            /\ notified = 1

\* C9 as stated: a run whose tailer was stopped by a Run-header failure does
\* not end with RunMain's normal return.
C9_FatalEndsInFailure ==
    (rpc = "returned" /\ exitReason = "fatal") => exitCode # "return"

\* The patterns of the classifier that match text.
Matching(text) ==
    {k \in {"run", "user", "request", "group", "error"} :
        \/ k = "run" /\ runLine(text)
        \/ k = "user" /\ userLine(text)
        \/ k = "request" /\ requestLine(text)
        \/ k = "group" /\ groupLine(text)
        \/ k = "error" /\ errorLine(text)}

\* C10 as stated: no buffer given to stringProcessor matches more than one
\* of the five patterns.
C10_PatternsExclusive ==
    \A i \in 1..Len(classified) :
        Cardinality(Matching(Expand(classified[i].line))) <= 1

\* ------------------------------------------------------------ Resolver
\* The most entries below the target root in one walk.
MaxEntries == 2

\* The most polls of an absent root that the history counts.
MaxPolls == 1

\* walkFunc's slack, in seconds: startTime - 60.
Slack == 60

\* waitForLog's threshold on the permission bits, 0644 read as a number.
MinPerm == 420

\* time.Now().Unix() when the package was loaded.
startTime == Slack + 1

\* The characters of one symbol of a file name: "D14" and "D3" are runs of
\* 14 and of 3 decimal digits.
NameChars(sym) ==
    CASE sym = "D14" -> [i \in 1..14 |-> "2"]
      [] sym = "D3"  -> <<"1", "2", "3">>
      [] OTHER       -> <<sym>>

RECURSIVE ExpandName(_)
ExpandName(name) ==
    IF name = <<>> THEN <<>>
    ELSE NameChars(Head(name)) \o ExpandName(Tail(name))

Digits == {"0", "1", "2", "3", "4", "5", "6", "7", "8", "9"}

\* ^.+?-(\d{14})\d{3}$ : the text ends in 17 digits, a "-" stands before
\* them and at least one character other than a newline before the "-".
resultDirNamePattern(text) ==
    LET n == Len(text) IN
    /\ n >= 19
    /\ \A i \in (n - 16)..n : text[i] \in Digits
    /\ text[n - 17] = "-"
    /\ \A i \in 1..(n - 18) : text[i] # "\n"

\* File names: a Gatling results directory, one with the 14-digit stamp
\* only, and one with nothing before the "-".
DirNames ==
    { <<"x", "-", "D14", "D3">>, <<"x", "-", "D14">>, <<"-", "D14", "D3">> }

\* info.ModTime().Unix(): before, at and after startTime - 60.
ModTimes == {startTime - Slack - 1, startTime - Slack, startTime - Slack + 1}

\* What walkFunc is told of one entry.  info is FALSE for an entry whose
\* os.Lstat failed (removed since the directory was read, or lying in a
\* directory that cannot be searched): filepath.Walk then hands walkFunc a
\* nil FileInfo, and isDir and mtime stand for nothing.
Entries ==
    [name : DirNames, isDir : BOOLEAN, mtime : ModTimes, info : {TRUE}]
        \cup [name : DirNames, isDir : {FALSE}, mtime : {startTime},
              info : {FALSE}]

\* One walk, in the order filepath.Walk calls walkFunc: the root itself,
\* then what lies below it, in lexical order.
Trees ==
    { <<r>> \o kids :
        r \in {e \in Entries : e.info /\ e.isDir},
        kids \in UNION {[1..n -> Entries] : n \in 0..MaxEntries} }

\* Mutant of walkFunc: any directory that is new enough is taken.
walkFuncAnyName(info) ==
    IF ~info.info THEN "panic"
    ELSE IF info.isDir /\ info.mtime > startTime - Slack
    THEN "errFound" ELSE "nil"

\* info.IsDir() on a nil FileInfo panics (line 118).
walkFunc(info) ==
    IF ~info.info THEN "panic"
    ELSE IF /\ info.isDir
       /\ resultDirNamePattern(ExpandName(info.name))
       /\ info.mtime > startTime - Slack
    THEN "errFound" ELSE "nil"

\* filepath.Walk(dir, walkFunc) from the i-th entry on: it stops at the first
\* entry for which walkFunc returns errFound, and the process dies at the
\* first entry on which walkFunc panics.
RECURSIVE Walk(_, _)
Walk(tree, i) ==
    IF i > Len(tree)
    THEN [found |-> 0, visited |-> Len(tree), panic |-> FALSE]
    ELSE IF walkFunc(tree[i]) = "panic"
    THEN [found |-> 0, visited |-> i, panic |-> TRUE]
    ELSE IF walkFunc(tree[i]) = "errFound"
    THEN [found |-> i, visited |-> i, panic |-> FALSE]
    ELSE Walk(tree, i + 1)

\* fInfo.Mode().Perm(): 0644, 0700, 0444, 0600 and 0755.
Perms == {420, 448, 292, 384, 493}

\* What os.Stat of simulation.log gives.
LogStats ==
    [kind : {"regular", "other"}, perm : Perms]
        \cup [kind : {"absent", "error"}, perm : {0}]

RootStates == {"absent", "file", "dir", "error"}

\* RunMain at line 310, a filesystem and a platform.
ResolverInit ==
    /\ content = <<>>
    /\ pos = 0
    /\ buf = <<>>
    /\ fileOk = TRUE
    /\ waitTime = 0
    /\ elapsed = 0
    /\ readErrs = 0
    /\ stopRequested = FALSE
    /\ pCancelled = FALSE
    /\ iCancelled = FALSE
    /\ rpc = "target"
    /\ tpc = "idle"
    /\ spc = "idle"
    /\ wg = 0
    /\ notified = 0
    /\ recvd = 0
    /\ exitReason = "none"
    /\ classified = <<>>
    /\ exitCode = "none"
    /\ goos \in {"linux", "windows"}
    /\ rootState \in RootStates
    /\ absentPolls = 0
    /\ done = <<>>
    /\ seenTree = <<>>
    /\ visited = 0
    /\ logDir = 0
    /\ seenLog = NoLog
    /\ prevStamp = NoStamp
    /\ curStamp = NoStamp

\* The variables the Resolver never touches.
pipelineVars == <<content, pos, buf, fileOk, waitTime, elapsed, readErrs,
                  pCancelled, iCancelled, tpc, spc, wg, notified, recvd,
                  exitReason, classified>>

\* The target root is created, removed, replaced or made unreadable.
RootChange ==
    /\ rpc \in {"target", "results"}
    /\ rootState' \in RootStates \ {rootState}
    /\ UNCHANGED <<pipelineVars, stopRequested, rpc, exitCode, goos, done,
                   absentPolls, seenTree, visited, logDir, seenLog,
                   prevStamp, curStamp>>

\* Mutant of ResolverStopped: a stop is handled like any other error.
ResolverStoppedExits ==
    /\ rpc' = "exited"
    /\ exitCode' = "exit1"
    /\ UNCHANGED done

\* A stage returned errStoppedByUser: RunMain returns.
ResolverStopped ==
    /\ rpc' = "returned"
    /\ exitCode' = "return"
    /\ UNCHANGED done

\* A stage returned another error: os.Exit(1).
ResolverFailed ==
    /\ rpc' = "exited"
    /\ exitCode' = "exit1"
    /\ UNCHANGED done

\* A stage succeeded: RunMain goes on to what follows it.
StageDone(stage, next) ==
    /\ rpc' = next
    /\ done' = Append(done, stage)
    /\ UNCHANGED exitCode

\* time.Sleep(loopTimeout); continue
Retry == UNCHANGED <<rpc, exitCode, done>>

\* Mutant of LookupTargetDir: whatever exists at the path is accepted.
LookupTargetDirNoDirCheck ==
    /\ rpc = "target"
    /\ IF stopRequested THEN ResolverStopped /\ UNCHANGED absentPolls
       ELSE IF rootState = "error" THEN ResolverFailed /\ UNCHANGED absentPolls
       ELSE IF rootState = "absent"
       THEN Retry /\ absentPolls' = Min(absentPolls + 1, MaxPolls)
       ELSE StageDone("target", "results") /\ UNCHANGED absentPolls
    /\ UNCHANGED <<pipelineVars, stopRequested, goos, rootState, seenTree,
                   visited, logDir, seenLog, prevStamp, curStamp>>

\* One iteration of lookupTargetDir's loop, and what RunMain does with its
\* result.
LookupTargetDir ==
    /\ rpc = "target"
    /\ IF stopRequested THEN ResolverStopped /\ UNCHANGED absentPolls
       ELSE IF rootState = "error" THEN ResolverFailed /\ UNCHANGED absentPolls
       ELSE IF rootState = "absent"
       THEN Retry /\ absentPolls' = Min(absentPolls + 1, MaxPolls)
       ELSE IF rootState = "file" THEN ResolverFailed /\ UNCHANGED absentPolls
       ELSE StageDone("target", "results") /\ UNCHANGED absentPolls
    /\ UNCHANGED <<pipelineVars, stopRequested, goos, rootState, seenTree,
                   visited, logDir, seenLog, prevStamp, curStamp>>

\* One iteration of lookupResultsDir's loop.  filepath.Walk hands walkFunc a
\* nil FileInfo when os.Lstat of the root or of an entry below it fails, and
\* walkFunc dereferences it; a root that is a file is visited and the walk
\* returns nil.
LookupResultsDir ==
    /\ rpc = "results"
    /\ IF stopRequested
       THEN ResolverStopped /\ UNCHANGED <<seenTree, visited, logDir>>
       ELSE IF rootState \in {"absent", "error"}
       THEN /\ rpc' = "crashed"
            /\ exitCode' = "panic"
            /\ UNCHANGED <<done, seenTree, visited, logDir>>
       ELSE IF rootState = "file"
       THEN Retry /\ UNCHANGED <<seenTree, visited, logDir>>
       ELSE \E tree \in Trees :
              LET w == Walk(tree, 1) IN
              IF w.panic
              THEN /\ seenTree' = tree
                   /\ visited' = w.visited
                   /\ rpc' = "crashed"
                   /\ exitCode' = "panic"
                   /\ UNCHANGED <<done, logDir>>
              ELSE IF w.found # 0
              THEN /\ seenTree' = tree
                   /\ visited' = w.visited
                   /\ logDir' = w.found
                   /\ StageDone("results", "log")
              ELSE Retry /\ UNCHANGED <<seenTree, visited, logDir>>
    /\ UNCHANGED <<pipelineVars, stopRequested, goos, rootState,
                   absentPolls, seenLog, prevStamp, curStamp>>

\* One iteration of waitForLog's loop.
WaitForLog ==
    /\ rpc = "log"
    /\ IF stopRequested
       THEN ResolverStopped /\ UNCHANGED seenLog
       ELSE \E f \in LogStats :
              /\ seenLog' = f
              /\ IF f.kind = "error" THEN ResolverFailed
                 ELSE IF f.kind = "absent" THEN Retry
                 ELSE IF /\ f.kind = "regular"
                         /\ (goos = "windows" \/ f.perm >= MinPerm)
                 THEN StageDone("log", "spawn")
                 ELSE ResolverFailed
    /\ UNCHANGED <<pipelineVars, stopRequested, goos, rootState,
                   absentPolls, seenTree, visited, logDir, prevStamp, curStamp>>

ResolverRun ==
    \/ LookupTargetDir
    \/ LookupResultsDir
    \/ WaitForLog
    \/ RunMainSpawn

ResolverNext == StopRequest \/ RootChange \/ ResolverRun

ResolverSpec == ResolverInit /\ [][ResolverNext]_vars

\* The steps of RunMain whose outcome the filesystem does not choose at the
\* step: the return on a stop, lookupTargetDir's poll (decided by the state
\* of the root), the walk of a root that is no directory, and the start of
\* the units.
Forced ==
    \/ stopRequested
    \/ rpc \in {"target", "spawn"}
    \/ (rpc = "results" /\ rootState # "dir")

\* RunMain is one goroutine that the scheduler keeps running.  Nothing makes
\* a results directory or simulation.log appear: lookupResultsDir and
\* waitForLog may poll for ever.
FairResolverSpec == ResolverSpec /\ WF_vars(Forced /\ ResolverRun)

\* ------------------------------------------------------------ C11
\* The name of an entry matches the results-directory pattern.
NameMatches(e) == resultDirNamePattern(ExpandName(e.name))

\* C11: the entry the Resolver selects has a name that matches the
\* results-directory pattern and a modification time that is not older than
\* the start time minus 60 seconds; so where a stale and a fresh matching
\* directory coexist, the stale one is not the one selected.
C11_OnlyFreshMatchingSelected ==
    logDir # 0 =>
        /\ NameMatches(seenTree[logDir])
        /\ ~(seenTree[logDir].mtime < startTime - Slack)

\* A fresh directory was selected in a tree that also holds a stale
\* directory with a matching name.
C11_Witness ==
    /\ logDir # 0
    /\ \E j \in 1..Len(seenTree) :
        /\ j # logDir
        /\ seenTree[j].isDir
        /\ NameMatches(seenTree[j])
        /\ seenTree[j].mtime < startTime - Slack

\* ------------------------------------------------------------ C12
\* C12 as stated: the selected entry is the first directory of the walk
\* whose name matches and whose modification time is greater than or equal
\* to the start time minus 60 seconds, and the walk stops there.
C12_Original ==
    logDir # 0 =>
        /\ visited = logDir
        /\ \A j \in 1..logDir :
            (j = logDir) <=>
                /\ seenTree[j].isDir
                /\ NameMatches(seenTree[j])
                /\ seenTree[j].mtime >= startTime - Slack

\* ------------------------------------------------------------ C13
UnitsIdle == tpc = "idle" /\ spc = "idle"

\* C13: the stages succeed in the order target, results, log; the tailer
\* and the sink are started only after all three have succeeded; a stage
\* that observes a stop makes RunMain return, with neither unit started and
\* no failure exit; after a fatal failure of a stage neither unit is started.
C13_StagesThenUnits ==
    /\ [](done = SubSeq(Stages, 1, Len(done)))
    /\ [](~UnitsIdle => done = Stages)
    /\ [](exitCode \in {"exit1", "panic"} => UnitsIdle)
    /\ [][(rpc \in {"target", "results", "log"} /\ stopRequested
            /\ rpc' # rpc)
          => (rpc' = "returned" /\ exitCode' = "return" /\ UnitsIdle')]_vars

\* Both units have been started, after the three stages.
C13_Witness ==
    /\ tpc = "open"
    /\ spc = "running"
    /\ done = Stages
    /\ seenLog.kind = "regular"

\* ------------------------------------------------------------ C14
\* C14: lookupTargetDir leaves its loop, when no stop is seen, with success
\* exactly on a root that is a directory and with a fatal error (no
\* stopped-by-user return) exactly on a root that is a file or cannot be
\* examined; it does not leave while the root is absent.  A root that is a
\* directory is reported as long as it stays one, and a root that is a file
\* or cannot be examined ends in the failure exit as long as it stays so.
C14_TargetDirOutcome ==
    /\ [][(rpc = "target" /\ rpc' # "target" /\ ~stopRequested) =>
            /\ rootState # "absent"
            /\ rootState = "dir" =>
                (rpc' = "results" /\ done' = <<"target">>
                    /\ exitCode' = "none")
            /\ rootState \in {"file", "error"} =>
                (rpc' = "exited" /\ exitCode' = "exit1")]_vars
    /\ (rpc = "target" /\ rootState = "dir") ~>
            (done = <<"target">> \/ rootState # "dir" \/ stopRequested)
    /\ (rpc = "target" /\ rootState = "file") ~>
            (exitCode = "exit1" \/ rootState # "file" \/ stopRequested)
    /\ (rpc = "target" /\ rootState = "error") ~>
            (exitCode = "exit1" \/ rootState # "error" \/ stopRequested)

\* lookupTargetDir found no root at a poll and later reported the root, by
\* then a directory.
C14_Witness ==
    /\ rpc = "results"
    /\ done = <<"target">>
    /\ rootState = "dir"
    /\ absentPolls >= 1
    /\ ~stopRequested

\* ------------------------------------------------------------ C15
\* The permission bits grant read to the group (040) and to others (004).
GroupOtherReadable(perm) ==
    /\ (perm \div 32) % 2 = 1
    /\ (perm \div 4) % 2 = 1

\* C15: where there are permission bits, waitForLog succeeds on a regular
\* simulation.log exactly when its permissions grant read to group and
\* others; on any other existing path it fails without retrying.
C15_ReadableIffAccepted ==
    (goos = "linux" /\ seenLog.kind \in {"regular", "other"}) =>
        IF seenLog.kind = "regular" /\ GroupOtherReadable(seenLog.perm)
        THEN done = Stages
        ELSE exitCode = "exit1"

\* ------------------------------------------------------------ C20
\* C20: the selected directory lies below the target root; the root itself
\* is never selected.
C20_RootNeverSelected == logDir # 0 => logDir > 1

\* ------------------------------------------------------------ timestamps
\* The longest text handed to timeFromUnixBytes.
MaxStampLen == 2

\* Nanoseconds in one millisecond.
oneMillisecond == 1000000

DigitValue(c) ==
    CASE c = "0" -> 0 [] c = "1" -> 1 [] c = "2" -> 2 [] c = "3" -> 3
      [] c = "4" -> 4 [] c = "5" -> 5 [] c = "6" -> 6 [] c = "7" -> 7
      [] c = "8" -> 8 [] c = "9" -> 9

\* The value of a run of decimal digits, most significant first.
RECURSIVE ParseDigits(_, _)
ParseDigits(s, acc) ==
    IF s = <<>> THEN acc
    ELSE ParseDigits(Tail(s), acc * 10 + DigitValue(Head(s)))

\* strconv.ParseInt(string(ub), 10, 64): an optional sign, then at least one
\* digit and nothing but digits.
ParseInt(ub) ==
    LET signed == ub # <<>> /\ Head(ub) \in {"+", "-"}
        digits == IF signed THEN Tail(ub) ELSE ub
    IN  IF digits = <<>> \/ \E i \in 1..Len(digits) : digits[i] \notin Digits
        THEN [ok |-> FALSE, val |-> 0]
        ELSE [ok |-> TRUE,
              val |-> IF Head(ub) = "-" THEN 0 - ParseDigits(digits, 0)
                      ELSE ParseDigits(digits, 0)]

\* rand.Int63n(n) returns a number in [0, n): its ends and its middle.
Int63n(n) == {0, n \div 2, n - 1}

\* The texts tried: digits, a sign and a character that is neither.
StampInputs == UNION {[1..n -> {"0", "1", "-", "x"}] : n \in 0..MaxStampLen}

\* Mutant of timeFromUnixBytes: the timestamp is scaled to microseconds.
timeFromUnixBytesMicro(ub, jitter) ==
    LET p == ParseInt(ub) IN
    IF ~p.ok THEN [ub |-> ub, ok |-> FALSE, ts |-> 0, ns |-> 0]
    ELSE [ub |-> ub, ok |-> TRUE, ts |-> p.val, ns |-> p.val * 1000 + jitter]

\* timeFromUnixBytes, jitter being what rand.Int63n(oneMillisecond) returns:
\* ts is the parsed timestamp, ns the nanoseconds of the time returned.
timeFromUnixBytes(ub, jitter) ==
    LET p == ParseInt(ub) IN
    IF ~p.ok THEN [ub |-> ub, ok |-> FALSE, ts |-> 0, ns |-> 0]
    ELSE [ub |-> ub, ok |-> TRUE, ts |-> p.val,
          ns |-> p.val * oneMillisecond + jitter]

StampInit ==
    /\ content = <<>>
    /\ pos = 0
    /\ buf = <<>>
    /\ fileOk = TRUE
    /\ waitTime = 0
    /\ elapsed = 0
    /\ readErrs = 0
    /\ stopRequested = FALSE
    /\ pCancelled = FALSE
    /\ iCancelled = FALSE
    /\ rpc = "spawn"
    /\ tpc = "idle"
    /\ spc = "idle"
    /\ wg = 0
    /\ notified = 0
    /\ recvd = 0
    /\ exitReason = "none"
    /\ classified = <<>>
    /\ exitCode = "none"
    /\ goos = "linux"
    /\ rootState = "dir"
    /\ absentPolls = 0
    /\ done = Stages
    /\ seenTree = <<>>
    /\ visited = 0
    /\ logDir = 0
    /\ seenLog = NoLog
    /\ prevStamp = NoStamp
    /\ curStamp = NoStamp

\* A record parser converts the timestamp field of a line.
Convert ==
    /\ \E ub \in StampInputs :
        \E jitter \in Int63n(oneMillisecond) :
            /\ prevStamp' = curStamp
            /\ curStamp' = timeFromUnixBytes(ub, jitter)
    /\ UNCHANGED <<pipelineVars, stopRequested, rpc, exitCode, goos,
                   rootState, absentPolls, done, seenTree, visited, logDir,
                   seenLog>>

StampNext == Convert

StampSpec == StampInit /\ [][StampNext]_vars

\* ------------------------------------------------------------ C16
\* C16: the time returned for a timestamp t lies t milliseconds plus an
\* offset of at least 0 and less than one millisecond after the epoch, so
\* truncated to milliseconds it is t; and of two calls the one with the
\* smaller timestamp returns the earlier time, whatever the jitter.
C16_JitterWithinMillisecond ==
    /\ curStamp.ok =>
        /\ curStamp.ns - curStamp.ts * oneMillisecond >= 0
        /\ curStamp.ns - curStamp.ts * oneMillisecond < oneMillisecond
        /\ curStamp.ns \div oneMillisecond = curStamp.ts
    /\ (prevStamp.ok /\ curStamp.ok /\ prevStamp.ts < curStamp.ts)
        => prevStamp.ns < curStamp.ns
    /\ (prevStamp.ok /\ curStamp.ok /\ prevStamp.ts > curStamp.ts)
        => prevStamp.ns > curStamp.ns

\* Two calls one millisecond apart, the earlier with the largest jitter and
\* the later with none.
C16_Witness ==
    /\ prevStamp.ok
    /\ curStamp.ok
    /\ curStamp.ts = prevStamp.ts + 1
    /\ prevStamp.ns = prevStamp.ts * oneMillisecond + (oneMillisecond - 1)
    /\ curStamp.ns = curStamp.ts * oneMillisecond

\* ------------------------------------------------------------ C17
\* The newline-terminated lines of a text, in order; what follows the last
\* newline is no line.
RECURSIVE SplitLines(_)
SplitLines(s) ==
    LET i == NewlineIndex(s) IN
    IF i = 0 THEN <<>>
    ELSE <<SubSeq(s, 1, i)>> \o SplitLines(SubSeq(s, i + 1, Len(s)))

\* The file offset up to which buffers have been classified.
ClassifiedUpto ==
    IF classified = <<>> THEN 0 ELSE classified[Len(classified)].upto

\* C17: while the file is open and every read gives data or end of file,
\* the buffers handed to the classifier are the newline-terminated lines of
\* the file, in order and once each, however the bytes arrived; what has
\* been read of an unfinished line waits in the buffer and is not classified.
C17_LinesReassembled ==
    (fileOk /\ readErrs = 0) =>
        /\ Len(classified) <= Len(SplitLines(content))
        /\ \A i \in 1..Len(classified) :
            classified[i].line = SplitLines(content)[i]
        /\ ~TailerLeftLoop =>
            /\ buf = SubSeq(content, ClassifiedUpto + 1, pos)
            /\ NewlineIndex(buf) = 0

\* A line has been classified and the reader sleeps with a fragment of the
\* next line in its buffer.
C17_Witness ==
    /\ fileOk
    /\ readErrs = 0
    /\ tpc = "sleep"
    /\ Len(classified) = 1
    /\ buf # <<>>
    /\ pos < Len(content)

\* ------------------------------------------------------------ C18
\* C18 as stated: a pass of the loop whose read fails with an error other
\* than end of file hands nothing to the classifier, keeps what the buffer
\* holds and leaves the IdleClock as it is.
C18_ReadErrorOnlyLogged ==
    [][(tpc = "read" /\ readErrs' = readErrs + 1) =>
        /\ classified' = classified
        /\ Len(buf') >= Len(buf)
        /\ SubSeq(buf', 1, Len(buf)) = buf
        /\ elapsed' = elapsed]_vars

\* ------------------------------------------------------------ C19
\* C19 as stated: once the log file has failed to open, the tailer, unless
\* it is stopped from outside, leaves its loop through the idle timeout and
\* sends its notification, and RunMain returns.
C19_FailedOpenIdlesOut ==
    (tpc = "top" /\ ~fileOk) ~>
        (stopRequested \/ (exitReason = "idle" /\ exitCode = "return"))

====
